---- MODULE Spec2Model ----
(***************************************************************************)
(* RaceOracle dashboard: the AppLayout tick loop, the Leaderboard sort,    *)
(* the ScenarioConfigModal handlers, the polling client (App.jsx) and the  *)
(* Electron main process (public/main.js).                                 *)
(*                                                                         *)
(* Numbers.  JavaScript numbers are modelled as exact rationals with the   *)
(* denominator Scale: a field holding the integer n stands for n / Scale.  *)
(* Math.random() returns 0 or (RandSteps-1) / RandSteps (the set Rand), or *)
(* 1/2 (the set Quiet) for the fields a specification keeps still.         *)
(*         lapTime and delta are never computed with; they are kept in     *)
(* hundredths of a second.                                                 *)
(***************************************************************************)
EXTENDS Integers, Sequences, FiniteSets, TLC

VARIABLES
    \* AppLayout (RaceVisualizer.jsx 98-190)
    agents,          \* useState: the three mock agents
    showModal,       \* useState(true)
    replay,          \* the agents of a second, independent run of the tick loop
    ticks,           \* number of interval callbacks run so far
    \* ScenarioConfigModal
    selectedTrack,   \* useState('monaco')
    cfgAgents,       \* useState([...]) of the modal
    startCalls,      \* configurations AppLayout.handleStartSimulation received
    edits,           \* number of onChange events handled by the modal
    \* Leaderboard
    lbAgents,        \* the agents prop, as the parent holds it
    sortedAgents,    \* the rows rendered, top first
    rendered,        \* whether Leaderboard has rendered
    \* polling client (App.jsx)
    simStatus,       \* 'idle' | 'running' | 'error'
    pollAgents,      \* useState([]) agents
    eventLog,        \* useState([]) eventLog
    startReq,        \* the POST /simulation/start request
    inflight,        \* responses of GET /simulation/state not yet delivered
    srvTick,         \* the simulation service's tick
    frames,          \* the views React painted while the last handler ran
    \* Electron main process
    platform,        \* process.platform
    isDev,           \* electron-is-dev
    appState,        \* "starting" | "ready" | "quit"
    mainWindow,      \* the module-level reference
    windows,         \* the BrowserWindows that exist
    nextWindowId,    \* identity of the next BrowserWindow
    devTools,        \* windows whose DevTools are open
    menuSet,         \* Menu.setApplicationMenu was called
    pendingAllClosed,\* 'window-all-closed' is emitted but not yet handled
    quitSource       \* the handler that called app.quit()

layoutVars == <<agents, showModal, replay, ticks>>
modalVars  == <<selectedTrack, cfgAgents, startCalls, edits>>
boardVars  == <<lbAgents, sortedAgents, rendered>>
pollVars   == <<simStatus, pollAgents, eventLog, startReq, inflight, srvTick, frames>>
mainVars   == <<platform, isDev, appState, mainWindow, windows, nextWindowId,
                devTools, menuSet, pendingAllClosed, quitSource>>
vars == <<layoutVars, modalVars, boardVars, pollVars, mainVars>>

----------------------------------------------------------------------------
(* Bounds of the model *)

RandSteps == 3
MaxTicks == 19
MaxRunTicks == 2

----------------------------------------------------------------------------
(* Numbers *)

Scale == 2 * RandSteps

\* Math.random(): the least and the greatest of the values k / RandSteps,
\* k \in 0 .. RandSteps - 1, as numerators over Scale
Rand == {0, 2 * (RandSteps - 1)}

\* Math.random() = 1/2
Quiet == {RandSteps}

Max(a, b) == IF a >= b THEN a ELSE b
Min(a, b) == IF a <= b THEN a ELSE b

\* JavaScript %: the result takes the sign of the dividend
JSRem(a, m) == IF a >= 0 THEN a % m ELSE 0 - ((0 - a) % m)

MinSpeed == 160
MaxSpeed == 200
WrapX == 500
WrapY == 400
WrapHeading == 360

----------------------------------------------------------------------------
(* AppLayout: initial agents and the animation effect *)

InitialAgents ==
    << [id |-> "A1", name |-> "AlphaBot", color |-> "#00FFD1",
        x |-> 150 * Scale, y |-> 150 * Scale, heading |-> 45 * Scale,
        speed |-> 180 * Scale, lap |-> 2, lapTime |-> 6534, delta |-> 0,
        status |-> "Active"],
       [id |-> "A2", name |-> "BetaAgent", color |-> "#FFB400",
        x |-> 250 * Scale, y |-> 200 * Scale, heading |-> 90 * Scale,
        speed |-> 175 * Scale, lap |-> 2, lapTime |-> 6612, delta |-> 78,
        status |-> "Active"],
       [id |-> "A3", name |-> "GammaBot", color |-> "#FF6B9D",
        x |-> 180 * Scale, y |-> 280 * Scale, heading |-> 225 * Scale,
        speed |-> 168 * Scale, lap |-> 1, lapTime |-> 6489, delta |-> 0 - 45,
        status |-> "Warning"] >>

\* mutant: the lower clamp is lost
ClampSpeedNoLower(s) == Min(MaxSpeed * Scale, s)

\* Math.max(160, Math.min(200, s))
ClampSpeed(s) == Max(MinSpeed * Scale, Min(MaxSpeed * Scale, s))

\* mutant: the record is rebuilt without the spread
UpdateAgentNoSpread(agent, rx, ry, rh, rs) ==
    [id |-> agent.id, name |-> agent.name, color |-> agent.color,
     x |-> JSRem(agent.x + 10 * rx - 5 * Scale, WrapX * Scale),
     y |-> JSRem(agent.y + 10 * ry - 5 * Scale, WrapY * Scale),
     heading |-> JSRem(agent.heading + 5 * rh - 5 * RandSteps, WrapHeading * Scale),
     speed |-> ClampSpeed(agent.speed + 4 * rs - 2 * Scale),
     lap |-> 0, lapTime |-> 0, delta |-> 0, status |-> "Active"]

\* The body of prevAgents.map: {...agent, x, y, heading, speed} with one
\* Math.random() per field (rx, ry, rh, rs, numerators over Scale).
\* 2.5 * Scale = 5 * RandSteps.
UpdateAgent(agent, rx, ry, rh, rs) ==
    [agent EXCEPT
        !.x = JSRem(agent.x + 10 * rx - 5 * Scale, WrapX * Scale),
        !.y = JSRem(agent.y + 10 * ry - 5 * Scale, WrapY * Scale),
        !.heading = JSRem(agent.heading + 5 * rh - 5 * RandSteps, WrapHeading * Scale),
        !.speed = ClampSpeed(agent.speed + 4 * rs - 2 * Scale)]

\* One interval callback on the array prev, with the draws r[i] of agent i
TickAgents(prev, r) ==
    [i \in 1 .. Len(prev) |-> UpdateAgent(prev[i], r[i].x, r[i].y, r[i].heading, r[i].speed)]

\* The draws one callback may make: per agent, one value per field
Draws(n, RX, RY, RH, RS) == [1 .. n -> [x : RX, y : RY, heading : RH, speed : RS]]

InitLayout ==
    /\ agents = InitialAgents
    /\ showModal = TRUE
    /\ replay = InitialAgents
    /\ ticks = 0

\* setAgents(prevAgents => prevAgents.map(...)) with draws from the given sets
TickWith(RX, RY, RH, RS) ==
    \E r \in Draws(Len(agents), RX, RY, RH, RS) : agents' = TickAgents(agents, r)

\* The interval callback; the speed draws range over Rand
TickSpeed ==
    /\ TickWith(Quiet, Quiet, Quiet, Rand)
    /\ UNCHANGED <<showModal, replay, ticks>>
    /\ UNCHANGED <<modalVars, boardVars, pollVars, mainVars>>

\* The interval callback; the heading draws range over Rand
TickHeading ==
    /\ ticks < MaxTicks
    /\ TickWith(Quiet, Quiet, Rand, Quiet)
    /\ ticks' = ticks + 1
    /\ UNCHANGED <<showModal, replay>>
    /\ UNCHANGED <<modalVars, boardVars, pollVars, mainVars>>

\* The interval callback of two independent runs, tick by tick
TickBoth ==
    /\ ticks < MaxRunTicks
    /\ TickWith(Quiet, Quiet, Quiet, Rand)
    /\ \E r \in Draws(Len(replay), Quiet, Quiet, Quiet, Rand) :
          replay' = TickAgents(replay, r)
    /\ ticks' = ticks + 1
    /\ UNCHANGED showModal
    /\ UNCHANGED <<modalVars, boardVars, pollVars, mainVars>>

----------------------------------------------------------------------------
(* ScenarioConfigModal *)

MaxCfgAgents == 4
MaxEdits == 1

Tracks == {"monaco", "silverstone", "spa", "monza"}
Strategies == {"aggressive", "balanced", "conservative"}
TypedNames == {"Zed"}

InitialCfgAgents ==
    << [id |-> "a1", name |-> "AlphaBot", param |-> "aggressive"],
       [id |-> "a2", name |-> "BetaAgent", param |-> "balanced"],
       [id |-> "a3", name |-> "GammaBot", param |-> "conservative"] >>

Digits36 ==
    << "0", "1", "2", "3", "4", "5", "6", "7", "8", "9", "a", "b", "c", "d",
       "e", "f", "g", "h", "i", "j", "k", "l", "m", "n", "o", "p", "q", "r",
       "s", "t", "u", "v", "w", "x", "y", "z" >>

\* The first k base-36 digits of the fraction n / d (0 <= n < d), none after
\* the expansion ends: Math.random().toString(36).substr(2, k)
RECURSIVE FractionDigits36(_, _, _)
FractionDigits36(n, d, k) ==
    IF k = 0 \/ n = 0 THEN ""
    ELSE Digits36[((36 * n) \div d) + 1] \o FractionDigits36((36 * n) % d, d, k - 1)

\* `a${Math.random().toString(36).substr(2, 9)}` for Math.random() = r / Scale
NewId(r) == "a" \o FractionDigits36(r, Scale, 9)

\* `Agent-${agents.length + 1}`
NewName(len) == "Agent-" \o ToString(len + 1)

InitModal ==
    /\ selectedTrack = "monaco"
    /\ cfgAgents = InitialCfgAgents
    /\ startCalls = <<>>
    /\ edits = 0

\* The modal's controls exist only while isOpen; edits are bounded
CanEdit == showModal /\ edits < MaxEdits

\* onChange of the track select
SelectTrack ==
    /\ CanEdit
    /\ \E t \in Tracks \ {selectedTrack} : selectedTrack' = t
    /\ edits' = edits + 1
    /\ UNCHANGED <<layoutVars, cfgAgents, startCalls>>
    /\ UNCHANGED <<boardVars, pollVars, mainVars>>

\* agents.map(a => a.id === id ? { ...a, [field]: value } : a)
ChangedAgents(list, id, field, value) ==
    [i \in 1 .. Len(list) |->
        IF list[i].id = id THEN [list[i] EXCEPT ![field] = value] ELSE list[i]]

handleAgentChange ==
    /\ CanEdit
    /\ \E i \in 1 .. Len(cfgAgents) :
          \/ \E v \in TypedNames :
                cfgAgents' = ChangedAgents(cfgAgents, cfgAgents[i].id, "name", v)
          \/ \E v \in Strategies :
                cfgAgents' = ChangedAgents(cfgAgents, cfgAgents[i].id, "param", v)
    /\ edits' = edits + 1
    /\ UNCHANGED <<layoutVars, selectedTrack, startCalls>>
    /\ UNCHANGED <<boardVars, pollVars, mainVars>>

handleAddAgent ==
    /\ showModal
    /\ Len(cfgAgents) < MaxCfgAgents
    /\ \E r \in Rand :
          cfgAgents' = Append(cfgAgents,
              [id |-> NewId(r), name |-> NewName(Len(cfgAgents)), param |-> "balanced"])
    /\ UNCHANGED <<layoutVars, selectedTrack, startCalls, edits>>
    /\ UNCHANGED <<boardVars, pollVars, mainVars>>

\* agents.filter(a => a.id !== id)
RemovedAgents(list, id) == SelectSeq(list, LAMBDA a : a.id # id)

handleRemoveAgent ==
    /\ showModal
    /\ \E i \in 1 .. Len(cfgAgents) :
          cfgAgents' = RemovedAgents(cfgAgents, cfgAgents[i].id)
    /\ UNCHANGED <<layoutVars, selectedTrack, startCalls, edits>>
    /\ UNCHANGED <<boardVars, pollVars, mainVars>>

\* handleStart: onStart({ track, agents }) = AppLayout.handleStartSimulation,
\* which logs the config and closes the modal; then onClose()
handleStart ==
    /\ showModal
    /\ startCalls' = Append(startCalls, [track |-> selectedTrack, agents |-> cfgAgents])
    /\ showModal' = FALSE
    /\ UNCHANGED <<agents, replay, ticks, selectedTrack, cfgAgents, edits>>
    /\ UNCHANGED <<boardVars, pollVars, mainVars>>

\* Cancel or the X button: onClose
handleClose ==
    /\ showModal
    /\ showModal' = FALSE
    /\ UNCHANGED <<agents, replay, ticks, modalVars>>
    /\ UNCHANGED <<boardVars, pollVars, mainVars>>

----------------------------------------------------------------------------
(* Leaderboard *)

MaxBoard == 3
MaxLap == 2

BoardId(i) == "A" \o ToString(i)
BoardIds == {BoardId(i) : i \in 1 .. MaxBoard}
LapTimes == {6489, 6534}

\* The arrays a parent may pass as the agents prop: rows with distinct ids,
\* BoardRows(ids, laps, times) for ids in BoardIdSeqs(n)
BoardIdSeqs(n) ==
    {ids \in [1 .. n -> BoardIds] : \A i, j \in 1 .. n : i # j => ids[i] # ids[j]}
BoardRows(ids, laps, times) ==
    [i \in 1 .. Len(ids) |-> [id |-> ids[i], lap |-> laps[i], lapTime |-> times[i]]]

\* mutant: the lap times compared the other way round
CompareLapTimeDescending(a, b) ==
    IF a.lap - b.lap # 0 THEN a.lap - b.lap ELSE b.lapTime - a.lapTime

\* (a, b) => a.lap - b.lap || a.lapTime - b.lapTime
LeaderboardCompare(a, b) ==
    IF a.lap - b.lap # 0 THEN a.lap - b.lap ELSE a.lapTime - b.lapTime

\* Array.prototype.sort is stable: e goes behind every row it does not
\* compare below
RECURSIVE InsertSorted(_, _)
InsertSorted(s, e) ==
    IF s = <<>> THEN <<e>>
    ELSE IF LeaderboardCompare(s[Len(s)], e) > 0
         THEN Append(InsertSorted(SubSeq(s, 1, Len(s) - 1), e), s[Len(s)])
         ELSE Append(s, e)

RECURSIVE JSSort(_)
JSSort(a) ==
    IF a = <<>> THEN <<>>
    ELSE InsertSorted(JSSort(SubSeq(a, 1, Len(a) - 1)), a[Len(a)])

\* const sortedAgents = [...agents].sort(...): the copy is sorted, the prop
\* array stays as the parent holds it
RenderLeaderboard(a) ==
    LET copy == a IN [agents |-> a, sortedAgents |-> JSSort(copy)]

\* Before the parent has rendered the component
InitBoard ==
    /\ lbAgents = <<>>
    /\ sortedAgents = <<>>
    /\ rendered = FALSE

\* The parent passes an agents array: <Leaderboard agents={agents} />
PassProps ==
    /\ ~rendered
    /\ lbAgents = <<>>
    /\ \E n \in 1 .. MaxBoard :
          \E ids \in BoardIdSeqs(n), laps \in [1 .. n -> 0 .. MaxLap],
             times \in [1 .. n -> LapTimes] :
                lbAgents' = BoardRows(ids, laps, times)
    /\ UNCHANGED <<sortedAgents, rendered>>
    /\ UNCHANGED <<layoutVars, modalVars, pollVars, mainVars>>

Render ==
    /\ LET out == RenderLeaderboard(lbAgents) IN
          /\ lbAgents' = out.agents
          /\ sortedAgents' = out.sortedAgents
    /\ rendered' = TRUE
    /\ UNCHANGED <<layoutVars, modalVars, pollVars, mainVars>>

----------------------------------------------------------------------------
(* Polling client *)

MaxSrvTick == 3
MaxInflight == 2

\* A response: ok is whether fetch and res.json() succeeded; a field the
\* body lacks (undefined) has its has-flag FALSE
Body(ok, hasAgents, as, hasLog, log) ==
    [ok |-> ok, hasAgents |-> hasAgents, agents |-> as,
     hasLog |-> hasLog, event_log |-> log]

\* The service's snapshot at tick t (GET /simulation/state)
SrvAgents(t) ==
    << [id |-> "A1", x |-> 100 + 5 * t, y |-> 100, color |-> "#00FFD1",
        heading |-> 45, speed |-> 180, lap |-> 0, lapTime |-> 0, delta |-> 0,
        status |-> "Active"] >>
SrvLog(t) == [i \in 1 .. t |-> "event " \o ToString(i)]

\* What a request answered at tick t may bring: the snapshot, a snapshot
\* without event_log, a body without agents, or a failed fetch / res.json()
Bodies(t) ==
    { Body(TRUE, TRUE, SrvAgents(t), TRUE, SrvLog(t)),
      Body(TRUE, TRUE, SrvAgents(t), FALSE, <<>>),
      Body(TRUE, FALSE, <<>>, TRUE, SrvLog(t)),
      Body(FALSE, FALSE, <<>>, FALSE, <<>>) }

\* data.agents.map(a => ({ id, x, y, color, heading }))
ProjectAgents(list) ==
    [i \in 1 .. Len(list) |->
        [id |-> list[i].id, x |-> list[i].x, y |-> list[i].y,
         color |-> list[i].color, heading |-> list[i].heading]]

\* data.event_log || []
LogOrEmpty(b) == IF b.hasLog THEN b.event_log ELSE <<>>

\* mutant: each setState call is rendered on its own
PaintedUnbatched(prevAgents, prevLog, newAgents, newLog) ==
    << [agents |-> newAgents, eventLog |-> prevLog],
       [agents |-> newAgents, eventLog |-> newLog] >>

\* setAgents(...) and setEventLog(...) run in one continuation; React 18
\* batches them into one render
Painted(prevAgents, prevLog, newAgents, newLog) ==
    << [agents |-> newAgents, eventLog |-> newLog] >>

InitPoll ==
    /\ simStatus = "idle"
    /\ pollAgents = <<>>
    /\ eventLog = <<>>
    /\ startReq = "pending"
    /\ inflight = {}
    /\ srvTick = 0
    /\ frames = << [agents |-> <<>>, eventLog |-> <<>>] >>

\* The service advances on its own
ServerTick ==
    /\ srvTick < MaxSrvTick
    /\ srvTick' = srvTick + 1
    /\ UNCHANGED <<simStatus, pollAgents, eventLog, startReq, inflight, frames>>
    /\ UNCHANGED <<layoutVars, modalVars, boardVars, mainVars>>

\* await fetch(.../simulation/start) resolves, with whatever status code:
\* setSimStatus('running')
StartResolved ==
    /\ startReq = "pending"
    /\ \E code \in {"200", "409"} : startReq' = code
    /\ simStatus' = "running"
    /\ frames' = << [agents |-> pollAgents, eventLog |-> eventLog] >>
    /\ UNCHANGED <<pollAgents, eventLog, inflight, srvTick>>
    /\ UNCHANGED <<layoutVars, modalVars, boardVars, mainVars>>

\* fetch rejects: setSimStatus('error')
StartFailed ==
    /\ startReq = "pending"
    /\ startReq' = "failed"
    /\ simStatus' = "error"
    /\ frames' = << [agents |-> pollAgents, eventLog |-> eventLog] >>
    /\ UNCHANGED <<pollAgents, eventLog, inflight, srvTick>>
    /\ UNCHANGED <<layoutVars, modalVars, boardVars, mainVars>>

\* The interval callback starts a request every 200 ms, whether or not the
\* earlier ones are answered; the service answers from its current tick
PollIssue ==
    /\ simStatus = "running"
    /\ Cardinality(inflight) < MaxInflight
    /\ \E b \in Bodies(srvTick) : inflight' = inflight \cup {b}
    /\ UNCHANGED <<simStatus, pollAgents, eventLog, startReq, srvTick, frames>>
    /\ UNCHANGED <<layoutVars, modalVars, boardVars, mainVars>>

\* mutant: setEventLog(...) is called outside the data.agents guard
PollDeliverLogUnguarded ==
    /\ \E b \in inflight :
          /\ inflight' = inflight \ {b}
          /\ IF b.ok /\ b.hasAgents
             THEN /\ pollAgents' = ProjectAgents(b.agents)
                  /\ eventLog' = LogOrEmpty(b)
                  /\ frames' = Painted(pollAgents, eventLog,
                                       ProjectAgents(b.agents), LogOrEmpty(b))
             ELSE /\ UNCHANGED pollAgents
                  /\ eventLog' = IF b.ok THEN LogOrEmpty(b) ELSE eventLog
                  /\ frames' = <<>>
    /\ UNCHANGED <<simStatus, startReq, srvTick>>
    /\ UNCHANGED <<layoutVars, modalVars, boardVars, mainVars>>

\* A response arrives and the rest of the callback runs
PollDeliver ==
    /\ \E b \in inflight :
          /\ inflight' = inflight \ {b}
          /\ IF b.ok /\ b.hasAgents
             THEN /\ pollAgents' = ProjectAgents(b.agents)
                  /\ eventLog' = LogOrEmpty(b)
                  /\ frames' = Painted(pollAgents, eventLog,
                                       ProjectAgents(b.agents), LogOrEmpty(b))
             ELSE /\ UNCHANGED <<pollAgents, eventLog>>
                  /\ frames' = <<>>
    /\ UNCHANGED <<simStatus, startReq, srvTick>>
    /\ UNCHANGED <<layoutVars, modalVars, boardVars, mainVars>>

----------------------------------------------------------------------------
(* Electron main process *)

MaxWindows == 5

\* What the module-level mainWindow holds: undefined (let mainWindow), null,
\* or the BrowserWindow w
Undefined == [kind |-> "undefined", id |-> 0]
Null == [kind |-> "null", id |-> 0]
WindowRef(w) == [kind |-> "window", id |-> w]
Platforms == {"darwin", "win32", "linux"}

InitMain ==
    /\ platform \in Platforms
    /\ isDev \in BOOLEAN
    /\ appState = "starting"
    /\ mainWindow = Undefined
    /\ windows = {}
    /\ nextWindowId = 1
    /\ devTools = {}
    /\ menuSet = FALSE
    /\ pendingAllClosed = FALSE
    /\ quitSource = "none"

InitMainIdle ==
    /\ platform = "linux"
    /\ isDev = FALSE
    /\ appState = "starting"
    /\ mainWindow = Undefined
    /\ windows = {}
    /\ nextWindowId = 1
    /\ devTools = {}
    /\ menuSet = FALSE
    /\ pendingAllClosed = FALSE
    /\ quitSource = "none"

\* mainWindow = new BrowserWindow(...); openDevTools() in development
createWindow ==
    /\ nextWindowId <= MaxWindows
    /\ mainWindow' = WindowRef(nextWindowId)
    /\ windows' = windows \cup {nextWindowId}
    /\ nextWindowId' = nextWindowId + 1
    /\ devTools' = IF isDev THEN devTools \cup {nextWindowId} ELSE devTools

\* mutant: the window is opened whatever mainWindow holds
ActivateAlways == createWindow

\* app.on('activate'): if (mainWindow === null) createWindow()
ActivateHandler ==
    IF mainWindow = Null
    THEN createWindow
    ELSE UNCHANGED <<mainWindow, windows, nextWindowId, devTools>>

\* app.on('ready'): createWindow(); createMenu()
Ready ==
    /\ appState = "starting"
    /\ createWindow
    /\ menuSet' = TRUE
    /\ appState' = "ready"
    /\ UNCHANGED <<platform, isDev, pendingAllClosed, quitSource>>
    /\ UNCHANGED <<layoutVars, modalVars, boardVars, pollVars>>

\* 'activate' is emitted on macOS only (dock icon clicked, app re-launched)
Activate ==
    /\ platform = "darwin"
    /\ appState # "quit"
    /\ ActivateHandler
    /\ UNCHANGED <<platform, isDev, appState, menuSet, pendingAllClosed, quitSource>>
    /\ UNCHANGED <<layoutVars, modalVars, boardVars, pollVars>>

\* The user closes window w: mainWindow.on('closed') sets mainWindow = null,
\* and Electron emits 'window-all-closed' when no window is left
CloseWindow ==
    /\ appState = "ready"
    /\ \E w \in windows :
          /\ windows' = windows \ {w}
          /\ devTools' = devTools \ {w}
          /\ pendingAllClosed' = (windows \ {w} = {})
    /\ mainWindow' = Null
    /\ UNCHANGED <<platform, isDev, appState, nextWindowId, menuSet, quitSource>>
    /\ UNCHANGED <<layoutVars, modalVars, boardVars, pollVars>>

\* app.on('window-all-closed'): app.quit() unless on macOS
WindowAllClosed ==
    /\ appState = "ready"
    /\ pendingAllClosed
    /\ pendingAllClosed' = FALSE
    /\ IF platform # "darwin"
       THEN /\ appState' = "quit"
            /\ quitSource' = "window-all-closed"
            /\ windows' = {}
            /\ devTools' = {}
            /\ mainWindow' = IF windows = {} THEN mainWindow ELSE Null
       ELSE UNCHANGED <<appState, quitSource, windows, devTools, mainWindow>>
    /\ UNCHANGED <<platform, isDev, nextWindowId, menuSet>>
    /\ UNCHANGED <<layoutVars, modalVars, boardVars, pollVars>>

\* app.quit() from the Exit menu item or from SIGTERM: every window is closed
\* (each 'closed' handler runs) and the process ends
Quit ==
    /\ appState # "quit"
    /\ \E src \in {"menu", "SIGTERM"} :
          /\ src = "menu" => menuSet /\ windows # {}
          /\ quitSource' = src
    /\ appState' = "quit"
    /\ windows' = {}
    /\ devTools' = {}
    /\ mainWindow' = IF windows = {} THEN mainWindow ELSE Null
    /\ pendingAllClosed' = FALSE
    /\ UNCHANGED <<platform, isDev, nextWindowId, menuSet>>
    /\ UNCHANGED <<layoutVars, modalVars, boardVars, pollVars>>

\* View > Toggle Developer Tools on the focused window
ToggleDevTools ==
    /\ appState = "ready"
    /\ menuSet
    /\ \E w \in windows :
          devTools' = IF w \in devTools THEN devTools \ {w} ELSE devTools \cup {w}
    /\ UNCHANGED <<platform, isDev, appState, mainWindow, windows, nextWindowId,
                   menuSet, pendingAllClosed, quitSource>>
    /\ UNCHANGED <<layoutVars, modalVars, boardVars, pollVars>>

----------------------------------------------------------------------------
(* Specifications *)

InitAll == InitLayout /\ InitModal /\ InitBoard /\ InitPoll /\ InitMainIdle

\* AppLayout's tick loop, the speed perturbed
SpecTick == InitAll /\ [][TickSpeed]_vars

\* AppLayout's tick loop, the heading perturbed
SpecHeading == InitAll /\ [][TickHeading]_vars

\* Two runs of the tick loop side by side
SpecRuns == InitAll /\ [][TickBoth]_vars

\* The configuration modal inside AppLayout
NextModal ==
    \/ SelectTrack
    \/ handleAgentChange
    \/ handleAddAgent
    \/ handleRemoveAgent
    \/ handleStart
    \/ handleClose
SpecModal == InitAll /\ [][NextModal]_vars

\* Leaderboard rendered on any agents prop
NextBoard ==
    \/ PassProps
    \/ Render
SpecBoard == InitAll /\ [][NextBoard]_vars

\* The polling client and the service it polls
NextPoll ==
    \/ ServerTick
    \/ StartResolved
    \/ StartFailed
    \/ PollIssue
    \/ PollDeliver
SpecPoll == InitAll /\ [][NextPoll]_vars

\* The Electron main process
NextMain ==
    \/ Ready
    \/ Activate
    \/ CloseWindow
    \/ WindowAllClosed
    \/ Quit
    \/ ToggleDevTools
InitMainAll == InitLayout /\ InitModal /\ InitBoard /\ InitPoll /\ InitMain
SpecMain == InitMainAll /\ [][NextMain]_vars

----------------------------------------------------------------------------
(* Claims *)

\* C1: in the AppLayout tick loop, from the three initial agents, every
\* agent's speed is within [160, 200] after any number of ticks, whatever
\* Math.random() returns.
C1_SpeedWithinBounds ==
    \A i \in 1 .. Len(agents) :
        /\ MinSpeed * Scale <= agents[i].speed
        /\ agents[i].speed <= MaxSpeed * Scale

\* C1 witness: both clamps have acted. A2 starts at 175 and moves by -2 or
\* by 2 - 4/RandSteps, so it stands at exactly 160 only after Math.max cut
\* it off; A1 has climbed to 200.
C1_BothClampsReached ==
    /\ agents[2].speed = MinSpeed * Scale
    /\ agents[1].speed = MaxSpeed * Scale

\* C2 (as claimed): the rows are in descending order of lap: a row above
\* another never has the smaller lap.
C2_LapDescending ==
    rendered =>
        \A i, j \in 1 .. Len(sortedAgents) :
            i < j => sortedAgents[i].lap >= sortedAgents[j].lap

IdRank(id) == CHOOSE i \in 1 .. MaxBoard : BoardId(i) = id

SameRows(a, b) ==
    /\ Len(a) = Len(b)
    /\ {a[i] : i \in 1 .. Len(a)} = {b[i] : i \in 1 .. Len(b)}

\* The orders in which the rows of a may be passed
Reorderings(a) ==
    {[i \in 1 .. Len(a) |-> a[f[i]]] :
        f \in {g \in [1 .. Len(a) -> 1 .. Len(a)] :
                  \A i, j \in 1 .. Len(a) : i # j => g[i] # g[j]}}

\* C3 (as claimed): rows equal on lap and lapTime are shown smaller id
\* first, and every permutation of the agents prop renders the same rows in
\* the same order.
C3_TieBreakById ==
    rendered =>
        /\ \A i, j \in 1 .. Len(sortedAgents) :
              (/\ i < j
               /\ sortedAgents[i].lap = sortedAgents[j].lap
               /\ sortedAgents[i].lapTime = sortedAgents[j].lapTime)
              => IdRank(sortedAgents[i].id) < IdRank(sortedAgents[j].id)
        /\ \A p \in Reorderings(lbAgents) :
              RenderLeaderboard(p).sortedAgents = sortedAgents

\* C4: a tick never lowers an agent's lap, leaves id, name, color, lapTime,
\* delta and status of every agent as they were, and keeps the number and
\* the order of the agents.
C4_TickFrame ==
    [][/\ Len(agents') = Len(agents)
       /\ \A i \in 1 .. Len(agents) :
             /\ agents'[i].lap >= agents[i].lap
             /\ agents'[i].id = agents[i].id
             /\ agents'[i].name = agents[i].name
             /\ agents'[i].color = agents[i].color
             /\ agents'[i].lapTime = agents[i].lapTime
             /\ agents'[i].delta = agents[i].delta
             /\ agents'[i].status = agents[i].status]_vars

\* C4 witness: ticks have changed every agent's speed, and the laps and
\* statuses are the initial ones.
C4_TickedAgents ==
    /\ \A i \in 1 .. Len(agents) : agents[i].speed # InitialAgents[i].speed
    /\ agents[1].lap = 2 /\ agents[2].lap = 2 /\ agents[3].lap = 1
    /\ agents[3].status = "Warning"

\* C5 (as claimed): two independent runs of the tick loop from the same
\* initial agents hold identical agents after the same number of ticks.
C5_RunsAgree == agents = replay

\* C6 (as claimed): a start with an empty agent list is rejected: onStart
\* never receives a configuration without agents, and a modal closed on an
\* empty list was closed by Cancel, not by Start.
C6_EmptyStartRejected ==
    /\ \A i \in 1 .. Len(startCalls) : startCalls[i].agents # <<>>
    /\ (~showModal /\ cfgAgents = <<>>) => startCalls = <<>>

\* C7 (as claimed): every agent's heading is in [0, 360) after any number
\* of ticks.
C7_HeadingWrapped ==
    \A i \in 1 .. Len(agents) :
        /\ 0 <= agents[i].heading
        /\ agents[i].heading < WrapHeading * Scale

\* C8: once rendered, the rows are the agents of the prop ordered by lap and,
\* within one lap, with the smaller lapTime above the larger; and rendering
\* leaves the array the parent passed as it was.
C8_SortedByLapThenTime ==
    [][rendered' =>
        /\ lbAgents' = lbAgents
        /\ SameRows(sortedAgents', lbAgents)
        /\ \A i, j \in 1 .. Len(sortedAgents') :
              /\ i < j => sortedAgents'[i].lap <= sortedAgents'[j].lap
              /\ (/\ sortedAgents'[i].lap = sortedAgents'[j].lap
                  /\ sortedAgents'[i].lapTime < sortedAgents'[j].lapTime) => i < j]_vars

\* C8 witness: a rendered board whose prop was not in order already and
\* holds two agents on one lap with different lap times.
C8_ReorderedBoard ==
    /\ rendered
    /\ sortedAgents # lbAgents
    /\ \E i, j \in 1 .. Len(lbAgents) :
          /\ i < j
          /\ lbAgents[i].lap = lbAgents[j].lap
          /\ lbAgents[i].lapTime > lbAgents[j].lapTime

\* A view whose agents and event log are those of one response (or the
\* empty view shown before any response)
FromOneResponse(v) ==
    \/ v = [agents |-> <<>>, eventLog |-> <<>>]
    \/ \E t \in 0 .. MaxSrvTick : \E b \in Bodies(t) :
          /\ b.ok /\ b.hasAgents
          /\ v.agents = ProjectAgents(b.agents)
          /\ v.eventLog = LogOrEmpty(b)

\* C9: every view the polling client paints, and the state it holds, shows
\* the agents and the event log of one and the same /simulation/state
\* response, however requests and responses overlap.
C9_NoPartialSnapshot ==
    /\ FromOneResponse([agents |-> pollAgents, eventLog |-> eventLog])
    /\ \A i \in 1 .. Len(frames) : FromOneResponse(frames[i])

\* C9 witness: the snapshot of tick 2 is displayed, replacing the one of
\* tick 1, while a response carrying tick 0 is still on its way.
C9_OverlappingPolls ==
    /\ Len(frames) > 0
    /\ pollAgents = ProjectAgents(SrvAgents(2))
    /\ eventLog = SrvLog(2)
    /\ Body(TRUE, TRUE, SrvAgents(0), TRUE, SrvLog(0)) \in inflight

\* C10: at most one main window exists at a time; after 'ready' a window is
\* created only when mainWindow is null and no window exists; off macOS the
\* app has quit once 'window-all-closed' is handled; on macOS closing the
\* windows never quits the app, and mainWindow is then null, so that
\* 'activate' opens a window again.
C10_SingleMainWindow ==
    [][/\ Cardinality(windows') <= 1
       /\ (appState = "ready" /\ ~(windows' \subseteq windows))
             => (mainWindow = Null /\ windows = {} /\ platform = "darwin")
       /\ (platform' # "darwin" /\ appState' = "ready" /\ ~pendingAllClosed')
             => windows' # {}
       /\ (platform' = "darwin" /\ appState' = "quit")
             => quitSource' \in {"menu", "SIGTERM"}
       /\ (platform' = "darwin" /\ appState' = "ready" /\ windows' = {})
             => mainWindow' = Null]_vars

\* C10 witness: on macOS the first window was closed and 'activate' opened
\* the second, which is now the only one.
C10_Reopened ==
    /\ platform = "darwin"
    /\ appState = "ready"
    /\ windows = {2}
    /\ mainWindow = WindowRef(2)

\* The ids of the rows of an agent list are pairwise distinct
DistinctIds(list) ==
    \A i, j \in 1 .. Len(list) : i # j => list[i].id # list[j].id

\* C11 (as claimed): after any sequence of add, remove and edit operations
\* in the configuration modal the ids of the listed agents are pairwise
\* distinct, and so are the ids of every configuration passed to onStart
\* (an edit or a removal, which selects rows by id, then touches one row).
C11_AgentIdsDistinct ==
    /\ DistinctIds(cfgAgents)
    /\ \A k \in 1 .. Len(startCalls) : DistinctIds(startCalls[k].agents)

\* C12 (as claimed): the status of the polling client moves only from idle
\* to running or from idle to error and never changes afterwards; a GET
\* /simulation/state request is issued only once the POST /simulation/start
\* request has completed; and the status is running only when the start
\* was answered 200: a failed start or a 409 never leads to running.
C12_RunningOnlyAfterAccepted ==
    [][/\ simStatus' # simStatus
             => (simStatus = "idle" /\ simStatus' \in {"running", "error"})
       /\ ~(inflight' \subseteq inflight) => startReq # "pending"
       /\ simStatus' = "running" => startReq' = "200"]_vars

\* The tick of the service's snapshot that a displayed agent list shows
SnapshotTick(shown) ==
    CHOOSE t \in 0 .. MaxSrvTick : shown = ProjectAgents(SrvAgents(t))

\* C13 (as claimed): once a poll response has been applied, the polling
\* client never replaces the displayed agents by a snapshot whose tick is
\* older than the displayed one, however the in-flight requests interleave.
C13_DisplayNeverRegresses ==
    [][(pollAgents # <<>> /\ pollAgents' # pollAgents)
          => SnapshotTick(pollAgents') >= SnapshotTick(pollAgents)]_vars

\* C14: a poll whose fetch or JSON decoding throws, or whose body has no
\* agents field, leaves the displayed agents, the displayed event log and
\* the status running unchanged (the interval, which runs while the status
\* is running, goes on); a response with agents but without event_log sets
\* the event log to empty.
C14_FailedPollKeepsDisplay ==
    [][\A b \in inflight \ inflight' :
          /\ (~b.ok \/ ~b.hasAgents)
                => /\ pollAgents' = pollAgents
                   /\ eventLog' = eventLog
                   /\ simStatus = "running" /\ simStatus' = "running"
          /\ (b.ok /\ b.hasAgents /\ ~b.hasLog)
                => /\ pollAgents' = ProjectAgents(b.agents)
                   /\ eventLog' = <<>>]_vars

\* C14 witness: the snapshot of tick 2 came without event_log and emptied
\* the log; a later poll that failed or lacked agents painted nothing and
\* left that display in place, with the client still running.
C14_KeptAfterFailedPoll ==
    /\ simStatus = "running"
    /\ frames = <<>>
    /\ pollAgents = ProjectAgents(SrvAgents(2))
    /\ eventLog = <<>>

====
